---- MODULE Spec2Model ----
(***************************************************************************)
(* Model of the cryptachat WebSocket hub (src/src/websockets/hub.go) and   *)
(* of the connection construction in src/src/myhttp/server.go.             *)
(*                                                                         *)
(* The hub goroutine (Hub.Run) is a loop around one select over three      *)
(* unbuffered channels.  A receive on an unbuffered channel is a           *)
(* rendezvous with the sender, so each "Recv" action below is the joint    *)
(* step of the sender and of the hub; the body of the selected case is the *)
(* following hub step, and the push case, which releases h.mu between its  *)
(* lookup and the rest of its body, is two.                                *)
(***************************************************************************)
EXTENDS Integers, Sequences, FiniteSets, TLC

\* ---------------------------------------------------------------- bounds
NumUsers      == 2   \* user identities 1..NumUsers
MaxConns      == 2   \* Client instances created over a run
QueueCap      == 2   \* capacity of Client.send
MaxPush       == 3   \* Push jobs handed to the loop over a run
MaxUnregister == 2   \* sends on h.unregister by the Clients' tasks over a run
MaxMsgs       == 2   \* rows of the messages table
MaxStamp      == 3   \* values of the timestamp column

UserIDs  == 1..NumUsers
Conns    == 1..MaxConns
NoClient == 0        \* absent map entry / nil *Client

\* Payloads handed to PushToUser (message interface{}): message records,
\* named by their id, which json.Marshal accepts, and one value it rejects.
BadMsg   == 0
Messages == {BadMsg} \cup (1..MaxPush)

VARIABLES
    clients,      \* Hub.clients : userID -> *Client (NoClient when absent)
    hubpc,        \* position of Hub.Run
    cur,          \* the value received by the select (client or job)
    connUser,     \* Client.userID of every created Client (0: not created)
    connpc,       \* position of handleServeWS for every Client
    send,         \* Client.send : buffered frames
    closed,       \* Client.send has been closed
    emitted,      \* frames the write pump took from Client.send, in order
    unregSent,    \* sends on h.unregister completed by the Client's tasks
    pushJobs,     \* jobs PushToUser has handed to the loop so far
    \* history variables (not program state)
    closes,       \* close(Client.send) calls executed per Client
    accepted,     \* frames of the Push jobs that found the queue not full
    superseded,   \* Clients replaced by a later Register of their identity
    overflowed,   \* Clients whose queue was found full by a Push
    lastPush,     \* branch taken by the most recent push case
    mapAccess,    \* the operations on Hub.clients executed so far, each with
                  \* the task that executed it
    \* the store (PostgresStore) and the HTTP layer
    requests,     \* table chat_requests : rows [requester, requested, status]
    messages,     \* table messages, in id order
    wsReq,        \* the most recent GET /ws request
    chatReq       \* the most recent request to /request_chat or /accept_chat
                  \* and the status of its response

hubVars == <<clients, hubpc, cur, connUser, connpc, send, closed, emitted,
             unregSent, pushJobs, closes, accepted, superseded, overflowed,
             lastPush, mapAccess>>

storeVars == <<requests, messages, wsReq, chatReq>>

vars == <<hubVars, storeVars>>

\* No request to the chat request endpoints has been answered yet.
NoChatRequest == [handler |-> "none", user |-> 0, name |-> 0, status |-> 0]

NoEvent == [kind |-> "none", client |-> NoClient, user |-> 0, msg |-> BadMsg]

\* ------------------------------------------- credentials (auth.go)

\* A user id that a signed token can carry although GetUserByID no longer
\* finds the user.
DeletedUser == NumUsers + 1

\* The Authorization header of a request: absent, without the "Bearer "
\* prefix, or a token that does not parse (bad signature or algorithm), has
\* expired, or is well signed and current, for the user id in its claims.
Tokens ==
    {[kind |-> "missing", user |-> 0], [kind |-> "noBearer", user |-> 0]} \cup
    {[kind |-> k, user |-> u] :
        k \in {"invalid", "expired", "valid"}, u \in UserIDs \cup {DeletedUser}}

NoRequest == [token |-> [kind |-> "missing", user |-> 0], upgraded |-> FALSE]

\* Variant of jwtAuthMiddleware that lets an expired token through.
jwtAuthMiddleware_AcceptExpired(tok) ==
    IF tok.kind \in {"missing", "noBearer", "invalid"}
      THEN [ok |-> FALSE, user |-> 0]
    ELSE IF tok.user \notin UserIDs
      THEN [ok |-> FALSE, user |-> 0]
    ELSE [ok |-> TRUE, user |-> tok.user]

\* auth.go:19-75: the request reaches the wrapped handler only with a token
\* that parses, is valid and names a user GetUserByID finds; that user is
\* put in the request context.
jwtAuthMiddleware(tok) ==
    IF tok.kind = "missing" THEN [ok |-> FALSE, user |-> 0]          \* line 22
    ELSE IF tok.kind = "noBearer" THEN [ok |-> FALSE, user |-> 0]    \* line 28
    ELSE IF tok.kind \in {"invalid", "expired"}
      THEN [ok |-> FALSE, user |-> 0]                                \* line 49
    ELSE IF tok.user \notin UserIDs THEN [ok |-> FALSE, user |-> 0]  \* line 62
    ELSE [ok |-> TRUE, user |-> tok.user]                            \* line 68

\* ------------------------------------------------------- pure helpers

\* json.Marshal(job.Message): an error for the rejected value, otherwise
\* the encoded frame.
Marshal(m) ==
    IF m = BadMsg THEN [err |-> TRUE,  data |-> <<>>]
                  ELSE [err |-> FALSE, data |-> <<"json", m>>]

\* Number of created Clients.
NumCreated == Cardinality({c \in Conns : connUser[c] # 0})

\* Sends on h.unregister completed by the first n Clients together.
RECURSIVE UnregTotal(_)
UnregTotal(n) == IF n = 0 THEN 0 ELSE unregSent[n] + UnregTotal(n - 1)

\* ------------------------------------------------------------- Init

Init ==
    /\ clients    = [u \in UserIDs |-> NoClient]
    /\ hubpc      = "select"
    /\ cur        = NoEvent
    /\ connUser   = [c \in Conns |-> 0]
    /\ connpc     = [c \in Conns |-> "none"]
    /\ send       = [c \in Conns |-> <<>>]
    /\ closed     = [c \in Conns |-> FALSE]
    /\ emitted    = [c \in Conns |-> <<>>]
    /\ unregSent  = [c \in Conns |-> 0]
    /\ pushJobs  = 0
    /\ closes     = [c \in Conns |-> 0]
    /\ accepted   = [c \in Conns |-> <<>>]
    /\ superseded = {}
    /\ overflowed = {}
    /\ lastPush   = "none"
    /\ mapAccess  = {}
    /\ requests   = {}
    /\ messages   = <<>>
    /\ wsReq      = NoRequest
    /\ chatReq    = NoChatRequest

\* ------------------------------------------- case bodies of Hub.Run

\* Variant of Supersede that deletes the old entry without closing its queue.
Supersede_NoClose(cl, cls, c) ==
    LET u == connUser[c]
    IN  [clients |-> [cl EXCEPT ![u] = NoClient], closed |-> cls,
         panic |-> FALSE, closedNow |-> {}]

\* hub.go:46-50, the state after the old client of the identity (if any) was
\* disconnected and before the new one is inserted.  close() of an already
\* closed channel panics and leaves everything as it was.
Supersede(cl, cls, c) ==
    LET u   == connUser[c]
        old == cl[u]
    IN  IF old = NoClient
          THEN [clients |-> cl, closed |-> cls, panic |-> FALSE, closedNow |-> {}]
        ELSE IF cls[old]
          THEN [clients |-> cl, closed |-> cls, panic |-> TRUE, closedNow |-> {old}]
        ELSE [clients   |-> [cl EXCEPT ![u] = NoClient],
              closed    |-> [cls EXCEPT ![old] = TRUE],
              panic     |-> FALSE,
              closedNow |-> {old}]

\* Variant of RegisterCase that overwrites the entry without disconnecting
\* the old client.
RegisterCase_InsertOnly(cl, cls, c) ==
    [clients |-> [cl EXCEPT ![connUser[c]] = c], closed |-> cls,
     panic |-> FALSE, closedNow |-> {}]

\* Variant of RegisterCase that keeps an existing entry and ignores the new
\* client.
RegisterCase_KeepOld(cl, cls, c) ==
    IF cl[connUser[c]] # NoClient
      THEN [clients |-> cl, closed |-> cls, panic |-> FALSE, closedNow |-> {}]
      ELSE [clients |-> [cl EXCEPT ![connUser[c]] = c], closed |-> cls,
            panic |-> FALSE, closedNow |-> {}]

\* Variant of RegisterCase that disconnects every registered client, of
\* whatever identity, before it inserts the new one.
RegisterCase_DisconnectAll(cl, cls, c) ==
    LET online == {cl[u] : u \in UserIDs} \ {NoClient}
    IN  [clients   |-> [u \in UserIDs |-> IF u = connUser[c] THEN c ELSE NoClient],
         closed    |-> [d \in Conns |-> cls[d] \/ d \in online],
         panic     |-> \E d \in online : cls[d],
         closedNow |-> online]

\* hub.go:43-54, the register case.
RegisterCase(cl, cls, c) ==
    LET s == Supersede(cl, cls, c)
    IN  IF s.panic THEN s
        ELSE [s EXCEPT !.clients = [s.clients EXCEPT ![connUser[c]] = c]]

\* Variant of UnregisterCase without the instance comparison of line 60.
UnregisterCase_NoInstanceCheck(cl, cls, c) ==
    LET u == connUser[c]
    IN  IF cl[u] # NoClient
          THEN [clients |-> [cl EXCEPT ![u] = NoClient],
                closed  |-> [cls EXCEPT ![c] = TRUE],
                panic |-> cls[c], closedNow |-> {c}]
          ELSE [clients |-> cl, closed |-> cls, panic |-> FALSE, closedNow |-> {}]

\* Variant of UnregisterCase that deletes the entry and forgets to close the
\* queue.
UnregisterCase_NoClose(cl, cls, c) ==
    LET u == connUser[c]
    IN  IF cl[u] # NoClient /\ cl[u] = c
          THEN [clients |-> [cl EXCEPT ![u] = NoClient], closed |-> cls,
                panic |-> FALSE, closedNow |-> {}]
          ELSE [clients |-> cl, closed |-> cls, panic |-> FALSE, closedNow |-> {}]

\* Variant of UnregisterCase that closes the queue and leaves the entry in
\* the map.
UnregisterCase_KeepEntry(cl, cls, c) ==
    LET u == connUser[c]
    IN  IF cl[u] # NoClient /\ cl[u] = c
          THEN [clients |-> cl, closed |-> [cls EXCEPT ![c] = TRUE],
                panic |-> cls[c], closedNow |-> {c}]
          ELSE [clients |-> cl, closed |-> cls, panic |-> FALSE, closedNow |-> {}]

\* hub.go:56-66, the unregister case: only the registered instance itself is
\* deleted and closed.
UnregisterCase(cl, cls, c) ==
    LET u == connUser[c]
    IN  IF cl[u] # NoClient /\ cl[u] = c
          THEN IF cls[c]
                 THEN [clients |-> [cl EXCEPT ![u] = NoClient], closed |-> cls,
                       panic |-> TRUE, closedNow |-> {c}]
                 ELSE [clients |-> [cl EXCEPT ![u] = NoClient],
                       closed  |-> [cls EXCEPT ![c] = TRUE],
                       panic |-> FALSE, closedNow |-> {c}]
          ELSE [clients |-> cl, closed |-> cls, panic |-> FALSE, closedNow |-> {}]

\* Variant of Lookup that takes the first registered client instead of the
\* one of job.UserID.
Lookup_FirstClient(cl, u) ==
    LET online == {v \in UserIDs : cl[v] # NoClient}
    IN  IF online = {} THEN NoClient
        ELSE cl[CHOOSE v \in online : \A w \in online : v <= w]

\* hub.go:70, client, ok := h.clients[job.UserID]: the entry of the
\* identity, NoClient when there is none (ok false).
Lookup(cl, u) == cl[u]

\* Variant of PushCase that uses the looked-up client without testing ok: a
\* missing entry is a nil *Client and client.send dereferences it.
PushCase_NoOkCheck(client, snd, cls, m) ==
    LET j == Marshal(m)
    IN  IF j.err
          THEN [send |-> snd, outcome |-> "marshalErr", client |-> client]
        ELSE IF client = NoClient \/ cls[client]
          THEN [send |-> snd, outcome |-> "panic", client |-> client]
        ELSE IF Len(snd[client]) < QueueCap
          THEN [send    |-> [snd EXCEPT ![client] = Append(snd[client], j.data)],
                outcome |-> "queued", client |-> client]
        ELSE [send |-> snd, outcome |-> "full", client |-> client]

\* Variant of PushCase that puts the new frame in front of the queued ones.
PushCase_Prepend(client, snd, cls, m) ==
    LET j == Marshal(m)
    IN  IF client = NoClient
          THEN [send |-> snd, outcome |-> "offline", client |-> NoClient]
        ELSE IF j.err
          THEN [send |-> snd, outcome |-> "marshalErr", client |-> client]
        ELSE IF cls[client]
          THEN [send |-> snd, outcome |-> "panic", client |-> client]
        ELSE IF Len(snd[client]) < QueueCap
          THEN [send    |-> [snd EXCEPT ![client] = <<j.data>> \o snd[client]],
                outcome |-> "queued", client |-> client]
        ELSE [send |-> snd, outcome |-> "full", client |-> client]

\* Variant of PushCase that treats a json.Marshal error as a reason to
\* disconnect the client, like a full queue.
PushCase_MarshalErrDisconnects(client, snd, cls, m) ==
    LET j == Marshal(m)
    IN  IF client = NoClient
          THEN [send |-> snd, outcome |-> "offline", client |-> NoClient]
        ELSE IF j.err
          THEN [send |-> snd, outcome |-> "full", client |-> client]
        ELSE IF cls[client]
          THEN [send |-> snd, outcome |-> "panic", client |-> client]
        ELSE IF Len(snd[client]) < QueueCap
          THEN [send    |-> [snd EXCEPT ![client] = Append(snd[client], j.data)],
                outcome |-> "queued", client |-> client]
        ELSE [send |-> snd, outcome |-> "full", client |-> client]

\* hub.go:73-92, the push case after the lookup, with the looked-up client
\* in hand.  outcome is the branch taken:
\*   "offline"    no entry for job.UserID was found (line 91)
\*   "marshalErr" json.Marshal failed (lines 76-79)
\*   "queued"     the frame was put on client.send (line 83)
\*   "full"       client.send is full, the hub sends the client on
\*                h.unregister (line 88)
\*   "panic"      send on a closed channel
PushCase(client, snd, cls, m) ==
    LET j == Marshal(m)
    IN  IF client = NoClient
          THEN [send |-> snd, outcome |-> "offline", client |-> NoClient]
        ELSE IF j.err
          THEN [send |-> snd, outcome |-> "marshalErr", client |-> client]
        ELSE IF cls[client]
          THEN [send |-> snd, outcome |-> "panic", client |-> client]
        ELSE IF Len(snd[client]) < QueueCap
          THEN [send    |-> [snd EXCEPT ![client] = Append(snd[client], j.data)],
                outcome |-> "queued", client |-> client]
        ELSE [send |-> snd, outcome |-> "full", client |-> client]

\* ------------------------------------------------------------ actions

\* The operations ops on Hub.clients (a lookup, an assignment of an entry,
\* a delete), executed by the task of this name.
Accesses(task, ops) == {[task |-> task, op |-> o] : o \in ops}

\* The message record a caller of PushToUser holds next: records carry the
\* increasing id of the message log.
NextMsg == IF pushJobs < MaxPush THEN pushJobs + 1 ELSE MaxPush

\* Variant of Started in which handleServeWS starts the pumps before
\* client.Register() has returned.
Started_BeforeRegister(c) == connpc[c] \in {"registering", "running", "closing", "gone"}

\* client.Register() has returned and handleServeWS has started the pumps of
\* c (server.go:99-103); they keep running while the read pump reports that
\* the peer went away ("closing") and after it has done so ("gone").
Started(c) == connpc[c] \in {"running", "closing", "gone"}

\* part_003:62 and server.go:81-104: GET /ws behind jwtAuthMiddleware, each
\* request on its own goroutine.  A request that fails verification or
\* whose upgrade fails is answered and creates nothing.  Otherwise
\* NewClient(s.hub, conn, currentUser.ID) is followed by client.Register(),
\* which blocks on the unbuffered h.register until the hub receives it;
\* other requests create their Clients meanwhile.
handleServeWS(tok, up) ==
    /\ wsReq' = [token |-> tok, upgraded |-> up]
    /\ LET a == jwtAuthMiddleware(tok)
           c == NumCreated + 1
       IN  IF a.ok /\ up
             THEN /\ NumCreated < MaxConns
                  /\ connUser' = [connUser EXCEPT ![c] = a.user]
                  /\ connpc'   = [connpc EXCEPT ![c] = "registering"]
             ELSE UNCHANGED <<connUser, connpc>>
    /\ UNCHANGED <<clients, hubpc, cur, send, closed, emitted, unregSent,
                   pushJobs, closes, accepted, superseded, overflowed, lastPush, mapAccess>>
    /\ UNCHANGED <<requests, messages, chatReq>>

\* server.go:97-99 for a verified user u whose connection was upgraded.
NewClient(u) == handleServeWS([kind |-> "valid", user |-> u], TRUE)

\* hub.go:43: the select receives c from h.register; client.Register()
\* returns and handleServeWS starts the pumps (server.go:102-103).
HubRecvRegister(c) ==
    /\ hubpc = "select"
    /\ connpc[c] = "registering"
    /\ hubpc'  = "register"
    /\ cur'    = [kind |-> "register", client |-> c, user |-> connUser[c], msg |-> BadMsg]
    /\ connpc' = [connpc EXCEPT ![c] = "running"]
    /\ UNCHANGED <<clients, connUser, send, closed, emitted, unregSent,
                   pushJobs, closes, accepted, superseded, overflowed, lastPush, mapAccess>>
    /\ UNCHANGED storeVars

\* hub.go:44-54.
HubRegister ==
    /\ hubpc = "register"
    /\ LET r == RegisterCase(clients, closed, cur.client)
           old == clients[cur.user]
       IN  /\ clients' = r.clients
           /\ closed'  = r.closed
           /\ closes'  = [c \in Conns |->
                            closes[c] + (IF c \in r.closedNow THEN 1 ELSE 0)]
           /\ hubpc'   = IF r.panic THEN "panic" ELSE "select"
           /\ superseded' = IF old # NoClient /\ ~r.panic
                               THEN superseded \cup {old}
                               ELSE superseded
           /\ mapAccess' = mapAccess \cup
                 Accesses("Run", CASE r.panic       -> {"read"}         \* line 46
                                   [] old # NoClient -> {"read", "delete", "insert"}
                                                                        \* 46, 49, 52
                                   [] OTHER          -> {"read", "insert"})
    /\ cur' = NoEvent
    /\ UNCHANGED <<connUser, connpc, send, emitted, unregSent, pushJobs,
                   accepted, overflowed, lastPush>>
    /\ UNCHANGED storeVars

\* hub.go:56: the select receives c from h.unregister, sent by one of the
\* Client's own tasks (the pumps run only after Register has returned).
HubRecvUnregister(c) ==
    /\ hubpc = "select"
    /\ Started(c)
    /\ UnregTotal(MaxConns) < MaxUnregister
    /\ unregSent' = [unregSent EXCEPT ![c] = @ + 1]
    /\ hubpc'  = "unregister"
    /\ cur'    = [kind |-> "unregister", client |-> c, user |-> connUser[c], msg |-> BadMsg]
    /\ UNCHANGED <<clients, connUser, connpc, send, closed, emitted,
                   pushJobs, closes, accepted, superseded, overflowed, lastPush, mapAccess>>
    /\ UNCHANGED storeVars

\* hub.go:57-66.
HubUnregister ==
    /\ hubpc = "unregister"
    /\ LET r == UnregisterCase(clients, closed, cur.client)
       IN  /\ clients' = r.clients
           /\ closed'  = r.closed
           /\ closes'  = [c \in Conns |->
                            closes[c] + (IF c \in r.closedNow THEN 1 ELSE 0)]
           /\ hubpc'   = IF r.panic THEN "panic" ELSE "select"
           /\ mapAccess' = mapAccess \cup
                 Accesses("Run", IF r.clients # clients  \* lines 58, 60, 61
                                   THEN {"read", "delete"}
                                   ELSE {"read"})
    /\ cur' = NoEvent
    /\ UNCHANGED <<connUser, connpc, send, emitted, unregSent, pushJobs,
                   accepted, superseded, overflowed, lastPush>>
    /\ UNCHANGED storeVars

\* Variant of PushToUser in which the caller looks the recipient up in
\* h.clients itself and hands the loop no job for a user without a Client.
PushToUser_LookupFirst(u, m) ==
    /\ m \in {BadMsg, NextMsg}
    /\ mapAccess' = mapAccess \cup Accesses("PushToUser", {"read"})
    /\ IF hubpc = "select" /\ clients[u] # NoClient
         THEN /\ pushJobs < MaxPush
              /\ hubpc'    = "push"
              /\ cur'      = [kind |-> "push", client |-> NoClient, user |-> u, msg |-> m]
              /\ pushJobs' = pushJobs + 1
         ELSE UNCHANGED <<hubpc, cur, pushJobs>>
    /\ UNCHANGED <<clients, connUser, connpc, send, closed, emitted, unregSent,
                   closes, accepted, superseded, overflowed, lastPush>>
    /\ UNCHANGED storeVars

\* Variant of PushToUser over a h.push with a buffer: a job submitted while
\* the loop is in its register or unregister case is kept and is the next
\* event the loop processes.
PushToUser_Buffered(u, m) ==
    /\ m \in {BadMsg, NextMsg}
    /\ IF hubpc \in {"select", "register", "unregister"} /\ cur.kind # "push"
         THEN /\ pushJobs < MaxPush
              /\ hubpc'    = "push"
              /\ cur'      = [kind |-> "push", client |-> NoClient, user |-> u, msg |-> m]
              /\ pushJobs' = pushJobs + 1
         ELSE UNCHANGED <<hubpc, cur, pushJobs>>
    /\ UNCHANGED <<clients, connUser, connpc, send, closed, emitted, unregSent,
                   closes, accepted, superseded, overflowed, lastPush, mapAccess>>
    /\ UNCHANGED storeVars

\* Variant of PushToUser with a plain (blocking) send on h.push: the call
\* completes only when the loop is at its select.
PushToUser_Blocking(u, m) ==
    /\ m \in {BadMsg, NextMsg}
    /\ hubpc = "select"
    /\ pushJobs < MaxPush
    /\ hubpc'    = "push"
    /\ cur'      = [kind |-> "push", client |-> NoClient, user |-> u, msg |-> m]
    /\ pushJobs' = pushJobs + 1
    /\ UNCHANGED <<clients, connUser, connpc, send, closed, emitted, unregSent,
                   closes, accepted, superseded, overflowed, lastPush, mapAccess>>
    /\ UNCHANGED storeVars

\* hub.go:98-109, PushToUser: a non-blocking send on the unbuffered h.push.
\* It succeeds only when Hub.Run is waiting in its select (hub.go:68);
\* otherwise the default branch only logs and the job is gone.  Message
\* records carry the increasing id of the message log.
PushToUser(u, m) ==
    /\ m \in {BadMsg, NextMsg}
    /\ IF hubpc = "select"
         THEN /\ pushJobs < MaxPush
              /\ hubpc'    = "push"
              /\ cur'      = [kind |-> "push", client |-> NoClient, user |-> u, msg |-> m]
              /\ pushJobs' = pushJobs + 1
         ELSE UNCHANGED <<hubpc, cur, pushJobs>>
    /\ UNCHANGED <<clients, connUser, connpc, send, closed, emitted, unregSent,
                   closes, accepted, superseded, overflowed, lastPush, mapAccess>>
    /\ UNCHANGED storeVars

\* hub.go:69-71: with the job in hand the loop takes h.mu, looks the
\* recipient up in h.clients and releases h.mu.
HubPushLookup ==
    /\ hubpc = "push"
    /\ cur'   = [cur EXCEPT !.client = Lookup(clients, cur.user)]
    /\ hubpc' = "deliver"
    /\ mapAccess' = mapAccess \cup Accesses("Run", {"read"})   \* line 70
    /\ UNCHANGED <<clients, connUser, connpc, send, closed, emitted, unregSent,
                   pushJobs, closes, accepted, superseded, overflowed, lastPush>>
    /\ UNCHANGED storeVars

\* hub.go:73-92, after h.mu was released.  With a full queue the hub
\* goroutine itself executes "h.unregister <- client" (line 88) on the
\* unbuffered channel whose only receiver is the select of this same
\* goroutine (line 56).  No goroutine ever receives that value, so no action
\* leaves hubpc = "sendUnregister": from there on Register and Unregister
\* callers stay blocked and PushToUser takes its default branch, whatever
\* the bounds of the model.
HubPush ==
    /\ hubpc = "deliver"
    /\ LET r == PushCase(cur.client, send, closed, cur.msg)
       IN  /\ send'  = r.send
           /\ lastPush' = r.outcome
           /\ hubpc' = CASE r.outcome = "full"  -> "sendUnregister"
                         [] r.outcome = "panic" -> "panic"
                         [] OTHER               -> "select"
           /\ cur'   = IF r.outcome = "full"
                         THEN [kind |-> "unregister", client |-> r.client,
                               user |-> cur.user, msg |-> BadMsg]
                         ELSE NoEvent
           /\ accepted' = IF r.outcome = "queued"
                            THEN [accepted EXCEPT ![r.client] =
                                     Append(@, Marshal(cur.msg).data)]
                            ELSE accepted
           /\ overflowed' = IF r.outcome = "full"
                              THEN overflowed \cup {r.client} ELSE overflowed
    /\ UNCHANGED <<clients, connUser, connpc, closed, emitted, unregSent,
                   pushJobs, closes, superseded, mapAccess>>
    /\ UNCHANGED storeVars

\* The write pump of a running Client takes the next frame from Client.send
\* and writes it to the stream.  A closed channel still yields its buffered
\* frames.
WritePump(c) ==
    /\ Started(c)
    /\ Len(send[c]) > 0
    /\ emitted' = [emitted EXCEPT ![c] = Append(@, Head(send[c]))]
    /\ send'    = [send EXCEPT ![c] = Tail(@)]
    /\ UNCHANGED <<clients, hubpc, cur, connUser, connpc, closed, unregSent,
                   pushJobs, closes, accepted, superseded, overflowed, lastPush, mapAccess>>
    /\ UNCHANGED storeVars

\* One of the MaxPush calls of PushToUser a run of the whole hub makes.
PushCall(u, m) ==
    /\ pushJobs < MaxPush
    /\ PushToUser(u, m)

Next ==
    \/ \E u \in UserIDs : NewClient(u)
    \/ \E c \in Conns : HubRecvRegister(c)
    \/ HubRegister
    \/ \E c \in Conns : HubRecvUnregister(c)
    \/ HubUnregister
    \/ \E u \in UserIDs, m \in Messages : PushCall(u, m)
    \/ HubPushLookup
    \/ HubPush
    \/ \E c \in Conns : WritePump(c)

Spec == Init /\ [][Next]_vars

\* Register, Push and the write pumps: Clients that stay connected until a
\* newer Register of their identity supersedes them.
DeliveryNext ==
    \/ \E u \in UserIDs : NewClient(u)
    \/ \E c \in Conns : HubRecvRegister(c)
    \/ HubRegister
    \/ \E u \in UserIDs, m \in Messages : PushCall(u, m)
    \/ HubPushLookup
    \/ HubPush
    \/ \E c \in Conns : WritePump(c)

DeliverySpec == Init /\ [][DeliveryNext]_vars

\* Register and Unregister alone: Clients that connect, supersede each other
\* and report that they are gone, while nothing is pushed.
ConnectionNext ==
    \/ \E u \in UserIDs : NewClient(u)
    \/ \E c \in Conns : HubRecvRegister(c)
    \/ HubRegister
    \/ \E c \in Conns : HubRecvUnregister(c)
    \/ HubUnregister

ConnectionSpec == Init /\ [][ConnectionNext]_vars

\* The steps of the hub goroutine.
HubStep == HubRegister \/ HubUnregister \/ HubPushLookup \/ HubPush

\* Scheduling: the hub goroutine runs whenever it can; a goroutine blocked in
\* client.Register() is served whenever the select keeps coming back.
FairSpec ==
    /\ Spec
    /\ WF_vars(HubStep)
    /\ \A c \in Conns : SF_vars(HubRecvRegister(c))

\* Register, Unregister and Push in every interleaving: callers hand the
\* message records to PushToUser one after the other; the queues are not
\* drained.
LoopNext ==
    \/ \E u \in UserIDs : NewClient(u)
    \/ \E c \in Conns : HubRecvRegister(c)
    \/ HubRegister
    \/ \E c \in Conns : HubRecvUnregister(c)
    \/ HubUnregister
    \/ \E u \in UserIDs : PushCall(u, NextMsg)
    \/ HubPushLookup
    \/ HubPush

LoopSpec == Init /\ [][LoopNext]_vars

TypeOK ==
    /\ clients \in [UserIDs -> Conns \cup {NoClient}]
    /\ hubpc \in {"select", "register", "unregister", "push", "deliver",
                  "sendUnregister", "panic"}
    /\ connUser \in [Conns -> UserIDs \cup {0}]
    /\ connpc \in [Conns -> {"none", "registering", "running", "closing", "gone"}]
    /\ closed \in [Conns -> BOOLEAN]
    /\ \A c \in Conns : Len(send[c]) <= QueueCap
    /\ pushJobs \in 0..MaxPush
    /\ mapAccess \subseteq [task : {"Run"}, op : {"read", "insert", "delete"}]

\* ------------------------------------------------ the store (part_004)

\* Usernames in request bodies: the name of every user (written as the
\* user's id), a name no user has, and the empty string.
UnknownName == NumUsers + 1
EmptyName   == 0
Usernames   == UserIDs \cup {UnknownName, EmptyName}

\* Values of the timestamp column.  No statement of the store sets it (the
\* INSERT of part_004:319 leaves it to the database), so a new row can carry
\* a timestamp below, equal to or above those of the rows before it.
Timestamps == 1..MaxStamp

\* Bodies of POST /send_message apart from the recipient: both blobs
\* present, or the sender blob missing.
Payloads == {[senderBlob |-> "sb", recipientBlob |-> "rb"],
             [senderBlob |-> "",   recipientBlob |-> "rb"]}

\* part_004:121-134, GetUserIDByUsername: the id of a username, or an
\* error when no user has it.
GetUserIDByUsername(name) ==
    IF name \in UserIDs THEN [err |-> FALSE, id |-> name]
                        ELSE [err |-> TRUE,  id |-> 0]

\* The status of the chat_requests row from requester a to requested b,
\* "none" when there is no such row.
RequestStatus(req, a, b) ==
    IF \E r \in req : r.requester = a /\ r.requested = b
      THEN (CHOOSE r \in req : r.requester = a /\ r.requested = b).status
      ELSE "none"

\* part_004:175-197, RequestChat: a new 'pending' row; the unique index on
\* (requester_id, requested_id) rejects a second row.
RequestChat(req, requesterID, recipientUsername) ==
    LET r == GetUserIDByUsername(recipientUsername)
    IN  IF r.err THEN [requests |-> req, err |-> <<"recipient", "user", "not", "found">>]
        ELSE IF requesterID = r.id
          THEN [requests |-> req, err |-> <<"cannot", "send", "chat", "request", "to", "yourself">>]
        ELSE IF RequestStatus(req, requesterID, r.id) # "none"
          THEN [requests |-> req, err |-> <<"chat", "request", "already", "pending", "or", "accepted">>]
        ELSE [requests |-> req \cup {[requester |-> requesterID, requested |-> r.id,
                                      status |-> "pending"]},
              err |-> <<>>]

\* part_004:231-253, AcceptChat: the pending row from requester to requested
\* becomes 'accepted'; no such row is an error.
AcceptChat(req, requestedID, requesterUsername) ==
    LET r == GetUserIDByUsername(requesterUsername)
        row == [requester |-> r.id, requested |-> requestedID, status |-> "pending"]
    IN  IF r.err THEN [requests |-> req, err |-> <<"requester", "user", "not", "found">>]
        ELSE IF row \notin req
          THEN [requests |-> req, err |-> <<"no", "pending", "request", "found", "from", "that", "user">>]
        ELSE [requests |-> (req \ {row}) \cup {[row EXCEPT !.status = "accepted"]},
              err |-> <<>>]

\* Variant of SendMessage that refuses a recipient without an accepted chat
\* request in either direction.
SendMessage_ContactsOnly(msgs, req, senderID, recipientUsername, senderBlob, recipientBlob, ts) ==
    LET r == GetUserIDByUsername(recipientUsername)
    IN  IF r.err THEN [messages |-> msgs, err |-> <<"recipient", "user", "not", "found">>]
        ELSE IF /\ RequestStatus(req, senderID, r.id) # "accepted"
                /\ RequestStatus(req, r.id, senderID) # "accepted"
          THEN [messages |-> msgs, err |-> <<"not", "a", "contact">>]
        ELSE [messages |-> Append(msgs, [id            |-> Len(msgs) + 1,
                                         sender        |-> senderID,
                                         recipient     |-> r.id,
                                         senderBlob    |-> senderBlob,
                                         recipientBlob |-> recipientBlob,
                                         timestamp     |-> ts]),
              err |-> <<>>]

\* part_004:312-326, SendMessage: one new row with the next id of the
\* serial column.  The chat_requests table is not consulted.  The INSERT
\* names no timestamp: ts is the value the database puts in that column.
SendMessage(msgs, req, senderID, recipientUsername, senderBlob, recipientBlob, ts) ==
    LET r == GetUserIDByUsername(recipientUsername)
    IN  IF r.err THEN [messages |-> msgs, err |-> <<"recipient", "user", "not", "found">>]
        ELSE [messages |-> Append(msgs, [id            |-> Len(msgs) + 1,
                                         sender        |-> senderID,
                                         recipient     |-> r.id,
                                         senderBlob    |-> senderBlob,
                                         recipientBlob |-> recipientBlob,
                                         timestamp     |-> ts]),
              err |-> <<>>]

\* The row m as GetMessages returns it to myID (part_004:347-356).
MessageFor(m, myID) ==
    [id |-> m.id, sender |-> m.sender, recipient |-> m.recipient,
     timestamp |-> m.timestamp,
     blob |-> IF m.sender = myID THEN m.senderBlob ELSE m.recipientBlob]

\* The orders in which the executor can hand n rows to the sort: the
\* position of every row, no two rows at the same position.
Scans(n) ==
    {f \in [1..n -> 1..n] : \A i, j \in 1..n : f[i] = f[j] => i = j}

\* part_004:362, ORDER BY m.timestamp ASC over the rows sel of msgs, each as
\* MessageFor returns it.  Rows with equal timestamps come in the order in
\* which the executor produced them, which scan gives.
OrderByTimestamp(msgs, sel, myID, scan) ==
    LET Before(i, j) == \/ msgs[i].timestamp < msgs[j].timestamp
                        \/ /\ msgs[i].timestamp = msgs[j].timestamp
                           /\ scan[i] < scan[j]
        Rank(i) == Cardinality({j \in sel : Before(j, i)}) + 1
    IN  [k \in 1..Cardinality(sel) |->
            MessageFor(msgs[CHOOSE i \in sel : Rank(i) = k], myID)]

\* Variant of GetMessages that selects only the rows myID has sent.
GetMessages_SentOnly(msgs, myID, partnerUsername, sinceID, scan) ==
    LET r == GetUserIDByUsername(partnerUsername)
        sel == {i \in 1..Len(msgs) :
                   /\ msgs[i].sender = myID /\ msgs[i].recipient = r.id
                   /\ msgs[i].id > sinceID}
    IN  IF r.err THEN [rows |-> <<>>, err |-> <<"partner", "user", "not", "found">>]
        ELSE [rows |-> OrderByTimestamp(msgs, sel, myID, scan), err |-> <<>>]

\* Variant of GetMessages whose WHERE clause does not name the partner:
\* every row myID has sent or received is selected.
GetMessages_AnyPartner(msgs, myID, partnerUsername, sinceID, scan) ==
    LET r == GetUserIDByUsername(partnerUsername)
        sel == {i \in 1..Len(msgs) :
                   /\ msgs[i].sender = myID \/ msgs[i].recipient = myID
                   /\ msgs[i].id > sinceID}
    IN  IF r.err THEN [rows |-> <<>>, err |-> <<"partner", "user", "not", "found">>]
        ELSE [rows |-> OrderByTimestamp(msgs, sel, myID, scan), err |-> <<>>]

\* part_004:339-380, GetMessages: the rows between myID and the partner, in
\* either direction, with id above sinceID (lines 359-361), ordered by the
\* timestamp column (line 362).
GetMessages(msgs, myID, partnerUsername, sinceID, scan) ==
    LET r == GetUserIDByUsername(partnerUsername)
        sel == {i \in 1..Len(msgs) :
                   /\ \/ msgs[i].sender = myID /\ msgs[i].recipient = r.id
                      \/ msgs[i].sender = r.id /\ msgs[i].recipient = myID
                   /\ msgs[i].id > sinceID}
    IN  IF r.err THEN [rows |-> <<>>, err |-> <<"partner", "user", "not", "found">>]
        ELSE [rows |-> OrderByTimestamp(msgs, sel, myID, scan), err |-> <<>>]

\* ------------------------------------------- HTTP handlers (handlers.go)

\* strings.Contains(err.Error(), substr), on texts written word by word:
\* the words of sub occur in text, next to each other and in this order.
Contains(text, sub) ==
    \E i \in 0..(Len(text) - Len(sub)) :
        \A k \in 1..Len(sub) : text[i + k] = sub[k]

\* handlers.go:204-238, POST /request_chat for the verified user: the
\* table after the request and the status of the response, chosen by the
\* text of the store's error (lines 225-233).
handleRequestChat(currentUser, recipientUsername) ==
    LET res == RequestChat(requests, currentUser, recipientUsername)
        status ==
            CASE recipientUsername = EmptyName                    -> 400  \* line 219
              [] res.err = <<>>                                   -> 201  \* line 237
              [] Contains(res.err, <<"recipient", "user", "not", "found">>) -> 404
              [] Contains(res.err, <<"already", "pending">>)      -> 409
              [] Contains(res.err, <<"yourself">>)                -> 400
              [] OTHER                                            -> 500
    IN  /\ requests' = IF recipientUsername = EmptyName THEN requests
                                                        ELSE res.requests
        /\ chatReq' = [handler |-> "request_chat", user |-> currentUser,
                       name |-> recipientUsername, status |-> status]
        /\ UNCHANGED <<messages, wsReq>>
        /\ UNCHANGED hubVars

\* handlers.go:259-290, POST /accept_chat for the verified user: an error
\* of the store whose text contains "not found" is answered with 404 (line
\* 280), any other error with 500 (line 283).  "no pending request found
\* from that user" does not contain "not found".
handleAcceptChat(currentUser, requesterUsername) ==
    LET res == AcceptChat(requests, currentUser, requesterUsername)
        status ==
            CASE requesterUsername = EmptyName                    -> 400  \* line 274
              [] res.err = <<>>                                   -> 200  \* line 288
              [] Contains(res.err, <<"not", "found">>)            -> 404  \* line 281
              [] OTHER                                            -> 500  \* line 283
    IN  /\ requests' = IF requesterUsername = EmptyName THEN requests
                                                        ELSE res.requests
        /\ chatReq' = [handler |-> "accept_chat", user |-> currentUser,
                       name |-> requesterUsername, status |-> status]
        /\ UNCHANGED <<messages, wsReq>>
        /\ UNCHANGED hubVars

\* handlers.go:318-349, POST /send_message for the verified user: the body
\* is validated, store.SendMessage is called and the response is written.
\* The handler makes no call on s.hub.  dbUp is whether the INSERT succeeds
\* and ts the timestamp the database gives the new row.
handleSendMessage(currentUser, recipientUsername, payload, dbUp, ts) ==
    /\ Len(messages) < MaxMsgs
    /\ IF \/ recipientUsername = EmptyName
          \/ payload.senderBlob = "" \/ payload.recipientBlob = ""
         THEN UNCHANGED messages                          \* 400, line 332
       ELSE IF ~dbUp
         THEN UNCHANGED messages                          \* 500, line 342
       ELSE messages' = SendMessage(messages, requests, currentUser,
                                    recipientUsername, payload.senderBlob,
                                    payload.recipientBlob, ts).messages
    /\ UNCHANGED <<requests, wsReq, chatReq>>
    /\ UNCHANGED hubVars

StoreNext ==
    \/ \E u \in UserIDs, n \in Usernames : handleRequestChat(u, n)
    \/ \E u \in UserIDs, n \in Usernames : handleAcceptChat(u, n)
    \/ \E u \in UserIDs, n \in Usernames, p \in Payloads, up \in BOOLEAN,
            ts \in Timestamps :
          handleSendMessage(u, n, p, up, ts)

\* The HTTP handlers over the store, the hub idle at its select.
StoreSpec == Init /\ [][StoreNext]_vars

\* The message log alone: POST /send_message requests of every user.
MessageLogNext ==
    \E u \in UserIDs, n \in Usernames, p \in Payloads, up \in BOOLEAN,
       ts \in Timestamps :
        handleSendMessage(u, n, p, up, ts)

MessageLogSpec == Init /\ [][MessageLogNext]_vars

\* The chat request endpoints alone, each request answered before the next.
EndpointNext ==
    \/ \E u \in UserIDs, n \in Usernames : handleRequestChat(u, n)
    \/ \E u \in UserIDs, n \in Usernames : handleAcceptChat(u, n)

EndpointSpec == Init /\ [][EndpointNext]_vars

\* GET /ws requests with every kind of Authorization header, and the hub's
\* register case.
WsNext ==
    \/ \E tok \in Tokens, up \in BOOLEAN : handleServeWS(tok, up)
    \/ \E c \in Conns : HubRecvRegister(c)
    \/ HubRegister

WsSpec == Init /\ [][WsNext]_vars

\* ------------------------------------------- connection life cycle

\* The read pump of a running Client meets a terminal condition: the peer
\* closed the stream, a read failed or the idle timeout expired.
ReadPump(c) ==
    /\ connpc[c] = "running"
    /\ connpc' = [connpc EXCEPT ![c] = "closing"]
    /\ UNCHANGED <<clients, hubpc, cur, connUser, send, closed, emitted, unregSent,
                   pushJobs, closes, accepted, superseded, overflowed, lastPush, mapAccess>>
    /\ UNCHANGED storeVars

\* The read pump's single Unregister(self): a send on the unbuffered
\* h.unregister, which completes when the select of Hub.Run receives it
\* (hub.go:56).
ReadPumpUnregister(c) ==
    /\ hubpc = "select"
    /\ connpc[c] = "closing"
    /\ connpc'    = [connpc EXCEPT ![c] = "gone"]
    /\ unregSent' = [unregSent EXCEPT ![c] = @ + 1]
    /\ hubpc'     = "unregister"
    /\ cur'       = [kind |-> "unregister", client |-> c, user |-> connUser[c], msg |-> BadMsg]
    /\ UNCHANGED <<clients, connUser, send, closed, emitted,
                   pushJobs, closes, accepted, superseded, overflowed, lastPush, mapAccess>>
    /\ UNCHANGED storeVars

\* The hub with Clients whose peers go away; each Client sends Unregister
\* once, from its read pump.
LifeNext ==
    \/ \E u \in UserIDs : NewClient(u)
    \/ \E c \in Conns : HubRecvRegister(c)
    \/ HubRegister
    \/ \E c \in Conns : ReadPump(c)
    \/ \E c \in Conns : ReadPumpUnregister(c)
    \/ HubUnregister
    \/ \E u \in UserIDs, m \in Messages : PushToUser(u, m)
    \/ HubPushLookup
    \/ HubPush
    \/ \E c \in Conns : WritePump(c)

\* Scheduling: the hub goroutine and the write pumps run whenever they can;
\* a goroutine blocked in a send on h.register or h.unregister is served
\* whenever the select keeps coming back.
LifeSpec ==
    /\ Init /\ [][LifeNext]_vars
    /\ WF_vars(HubStep)
    /\ \A c \in Conns : /\ SF_vars(HubRecvRegister(c))
                        /\ SF_vars(ReadPumpUnregister(c))
                        /\ WF_vars(WritePump(c))

\* Every kind of task next to Hub.Run: GET /ws handlers of every user, a
\* POST /send_message handler, the read pump and the write pump of every
\* Client, and callers of PushToUser with the message records of user 1.
TaskNext ==
    \/ \E u \in UserIDs : handleServeWS([kind |-> "valid", user |-> u], TRUE)
    \/ /\ messages = <<>>
       /\ handleSendMessage(2, 1, [senderBlob |-> "sb", recipientBlob |-> "rb"],
                            TRUE, 1)
    \/ \E c \in Conns : HubRecvRegister(c)
    \/ HubRegister
    \/ \E c \in Conns : ReadPump(c)
    \/ \E c \in Conns : ReadPumpUnregister(c)
    \/ HubUnregister
    \/ PushCall(1, NextMsg)
    \/ HubPushLookup
    \/ HubPush
    \/ \E c \in Conns : WritePump(c)

TaskSpec == Init /\ [][TaskNext]_vars

\* The message log next to the hub: users 1 and 2 send each other messages
\* that the database stamps within one tick of its clock, user 2 connects
\* and reconnects, user 1 stays offline, and callers of PushToUser submit
\* jobs for both while no queue is drained: a job finds its recipient
\* offline, is queued, finds the queue full and blocks the loop, or is
\* dropped by PushToUser.
PushFailureNext ==
    \/ \E u \in {1, 2} : \E n \in {1, 2} \ {u} :
          handleSendMessage(u, n, [senderBlob |-> "sb", recipientBlob |-> "rb"],
                            TRUE, 1)
    \/ NewClient(2)
    \/ \E c \in Conns : HubRecvRegister(c)
    \/ HubRegister
    \/ \E u \in {1, 2} : PushCall(u, NextMsg)
    \/ HubPushLookup
    \/ HubPush

PushFailureSpec == Init /\ [][PushFailureNext]_vars

\* ------------------------------------------------------------ claims

\* The hub has received c from h.register and finished the register case
\* for it: c is, or was, the map entry of its identity.
Registered(c) ==
    /\ Started(c)
    /\ ~(hubpc = "register" /\ cur.client = c)

\* c is the map entry of its identity.
InMap(c) == connUser[c] # 0 /\ clients[connUser[c]] = c

\* c can still be given frames: it is the map entry, or the hub registered
\* it and its queue has not been closed.
EnqueueReachable(c) ==
    \/ InMap(c)
    \/ Registered(c) /\ ~closed[c]

\* C1: single-connection invariant.  For every identity at most one Client
\* is in the map or still has an open queue after having been registered.
C1_SingleConnection ==
    \A u \in UserIDs :
        Cardinality({c \in Conns : connUser[c] = u /\ EnqueueReachable(c)}) <= 1

\* Two Clients of one identity were registered; the newer is the map entry,
\* the older one is closed.
C1_Witness ==
    \E c1, c2 \in Conns :
        /\ c1 # c2 /\ connUser[c1] = connUser[c2] /\ connUser[c1] # 0
        /\ Registered(c1) /\ Registered(c2)
        /\ clients[connUser[c2]] = c2 /\ ~closed[c2] /\ closed[c1]

\* The push case has looked the registered Client up and is about to find
\* its queue full.
PushFindsQueueFull ==
    /\ hubpc = "deliver"
    /\ cur.client # NoClient
    /\ clients[cur.user] = cur.client
    /\ ~Marshal(cur.msg).err
    /\ ~closed[cur.client]
    /\ Len(send[cur.client]) >= QueueCap

\* C2: drop-not-block.  The push step that finds the queue full completes
\* (the loop is back at its select) and leaves the Client removed from the
\* map with its queue closed.
C2_DropNotBlock ==
    [][(PushFindsQueueFull /\ hubpc' # "deliver") =>
          /\ hubpc' = "select"
          /\ clients'[cur.user] = NoClient
          /\ closed'[cur.client]]_vars

\* C3: the control loop has no stuck state.  A Client waiting in Register is
\* eventually the map entry of its identity, whatever events came before.
C3_RegisterEventuallySucceeds ==
    \A c \in Conns :
        (connpc[c] = "registering") ~> InMap(c)

\* C4: fault isolation.  Once the queue of c was found full while a Client d
\* of another identity is online with free queue space, c gets disconnected
\* and the loop comes back to its select with d still registered and open,
\* ready to take a Push for d.
C4_FaultIsolation ==
    \A c, d \in Conns :
        ( /\ c \in overflowed
          /\ connUser[d] # connUser[c]
          /\ InMap(d) /\ ~closed[d]
          /\ Len(send[d]) < QueueCap )
        ~> ( /\ hubpc = "select"
             /\ closed[c] /\ ~InMap(c)
             /\ InMap(d) /\ ~closed[d] )

\* C5: Register supersede.  When the register case runs for c2 while c1 is
\* the entry of the same identity, then before the insert c1 is closed and
\* the entry is deleted, and after the step c1 is closed, c1 is in no entry
\* and the entry is c2.
C5_RegisterSupersede ==
    [][(hubpc = "register" /\ clients[cur.user] # NoClient /\ hubpc' # "register") =>
          LET c1 == clients[cur.user]
              c2 == cur.client
              s  == Supersede(clients, closed, c2)
          IN  /\ s.closed[c1] /\ s.clients[cur.user] = NoClient
              /\ closed'[c1]
              /\ \A u \in UserIDs : clients'[u] # c1
              /\ clients'[cur.user] = c2]_vars

\* A register step has replaced a registered Client of the same identity.
C5_Witness ==
    /\ hubpc = "select"
    /\ \E c1 \in superseded :
          /\ closed[c1] /\ closes[c1] = 1
          /\ clients[connUser[c1]] \notin {NoClient, c1}

\* C6: after c1 was superseded, no step puts a frame on c1's queue; a frame
\* is only ever put on the queue of the Client that is the map entry.
C6_PushOnlyToNewest ==
    [][\A c \in Conns :
          Len(send'[c]) > Len(send[c]) =>
              /\ c \notin superseded
              /\ clients[connUser[c]] = c]_vars

\* c1 was superseded by c2 and a later Push was queued on c2; c1 got nothing
\* after that.
C6_Witness ==
    \E c1 \in superseded :
        LET c2 == clients[connUser[c1]]
        IN  /\ c2 \notin {NoClient, c1}
            /\ Len(accepted[c2]) > 0
            /\ lastPush = "queued"

\* C7: Unregister(c) deletes the entry of c's identity and closes c's queue
\* exactly when the entry is the instance c; otherwise the map and all
\* queues are unchanged.
C7_UnregisterFrame ==
    [][(hubpc = "unregister" /\ hubpc' # "unregister") =>
          LET c == cur.client
              u == cur.user
          IN  IF clients[u] = c
                THEN /\ clients' = [clients EXCEPT ![u] = NoClient]
                     /\ closed'  = [closed EXCEPT ![c] = TRUE]
                     /\ send'    = send
                ELSE /\ clients' = clients
                     /\ closed'  = closed
                     /\ send'    = send]_vars

\* An Unregister of a superseded Client was processed and the newer Client
\* of that identity is still registered with its queue open.
C7_Witness ==
    /\ hubpc = "select"
    /\ \E c \in superseded :
          /\ unregSent[c] > 0
          /\ clients[connUser[c]] \notin {NoClient, c}
          /\ ~closed[clients[connUser[c]]]

\* C8: Unregister idempotence.  No Client's queue is closed more than once.
C8_NoDoubleClose ==
    \A c \in Conns : closes[c] <= 1

\* Unregister(c) was processed twice for a Client c that a newer Register
\* had superseded.
C8_Witness ==
    /\ hubpc = "select"
    /\ \E c \in superseded : unregSent[c] = 2 /\ closes[c] = 1

\* C9: offline-safe.  The push case for an identity without an entry (the
\* lookup, which finds no Client, and the step after it) changes neither
\* the map nor any queue, produces no frame and returns to the select.
C9_OfflineNoOp ==
    [][(/\ hubpc \in {"push", "deliver"}
        /\ clients[cur.user] = NoClient
        /\ hubpc' # hubpc) =>
          /\ clients' = clients
          /\ send'    = send
          /\ closed'  = closed
          /\ emitted' = emitted
          /\ IF hubpc = "push"
                THEN hubpc' = "deliver" /\ cur'.client = NoClient
                ELSE cur.client = NoClient /\ hubpc' = "select"]_vars

\* A Push for an offline identity was processed while a Client of another
\* identity is online.
C9_Witness ==
    /\ lastPush = "offline"
    /\ hubpc = "select"
    /\ \E u \in UserIDs : clients[u] # NoClient

\* C10: FIFO without loss.  What the write pump has emitted followed by what
\* is still queued is exactly the sequence of frames of the Pushes that
\* found the queue not full, in the order they were processed.
C10_FifoNoLoss ==
    \A c \in Conns : emitted[c] \o send[c] = accepted[c]

\* Three Pushes to one Client (more than the queue holds at once) were all
\* queued, with different frames, part emitted and part still queued.
C10_Witness ==
    \E c \in Conns :
        /\ Len(accepted[c]) = 3
        /\ accepted[c][1] # accepted[c][2]
        /\ Len(emitted[c]) >= 1 /\ Len(send[c]) >= 1

\* C11: Submit (PushToUser) never blocks.  In every state, whatever the loop
\* is doing, a PushToUser call completes in one step: the job is handed to
\* the loop or the call returns having changed nothing.  (At the select the
\* hand-over needs a job left within MaxPush.)
C11_SubmitNeverBlocks ==
    (hubpc # "select" \/ pushJobs < MaxPush) =>
        \A u \in UserIDs :
            ENABLED ( /\ PushToUser(u, NextMsg)
                      /\ \/ hubpc' = "push" /\ cur'.user = u /\ cur'.msg = NextMsg
                         \/ UNCHANGED vars )

\* The loop is blocked for good and a PushToUser call still returns, with
\* the job dropped.
C11_Witness ==
    /\ hubpc = "sendUnregister"
    /\ \E u \in UserIDs : ENABLED (PushToUser(u, NextMsg) /\ UNCHANGED vars)

\* C12: two concurrent Submits for one online recipient with queue space are
\* both accepted.  While the loop holds the job of the first caller for u, a
\* second PushToUser for u is not dropped.
C12_ConcurrentSubmitsAccepted ==
    \A u \in UserIDs :
        ( /\ hubpc \in {"push", "deliver"} /\ cur.user = u /\ ~Marshal(cur.msg).err
          /\ pushJobs < MaxPush
          /\ clients[u] # NoClient /\ ~closed[clients[u]]
          /\ Len(send[clients[u]]) + 2 <= QueueCap )
        => ENABLED (PushToUser(u, NextMsg) /\ ~(UNCHANGED vars))

\* The row m is among the rows GetMessages of msgs returns to m's recipient
\* for the partner m.sender and since, whatever the order in which the
\* executor produces the rows, with the blob encrypted for the recipient (a
\* message to oneself comes back with the sender's blob, which is the
\* reader's own).
Retrievable(msgs, m, since) ==
    \A scan \in Scans(Len(msgs)) :
        LET res == GetMessages(msgs, m.recipient, m.sender, since, scan)
        IN  /\ res.err = <<>>
            /\ \E k \in 1..Len(res.rows) :
                  /\ res.rows[k].id = m.id
                  /\ res.rows[k].sender = m.sender
                  /\ res.rows[k].blob = IF m.sender = m.recipient THEN m.senderBlob
                                                                   ELSE m.recipientBlob

\* C13: a send-message request that has persisted its message hands
\* PushToUser a job for the message's recipient.  The hub of StoreSpec is
\* idle at its select, where a PushToUser call always hands its job over.
C13_PersistThenSubmit ==
    [][Len(messages') > Len(messages)
         => /\ hubpc' = "push"
            /\ cur'.user = messages'[Len(messages')].recipient]_vars

\* C15: no step of the hub or of a PushToUser caller (a job handed over or
\* dropped, a push case that finds the recipient offline, queues the frame,
\* or finds the queue full and blocks the loop) changes the messages table;
\* every row of the table stays in the table, and after every step each
\* row is returned to its recipient by GetMessages for every since_id below
\* the row's id.
C15_NoMessageLost ==
    [][/\ hubVars' # hubVars => messages' = messages
       /\ Len(messages') >= Len(messages)
       /\ \A i \in 1..Len(messages) : messages'[i] = messages[i]
       /\ \A i \in 1..Len(messages') :
             \A since \in 0..(messages'[i].id - 1) :
                 Retrievable(messages', messages'[i], since)]_vars

\* The loop is blocked in its push case on the full queue of user 2's
\* Client, every further PushToUser call is dropped and user 1 is offline,
\* while the message log holds a message for user 2 and a later one for
\* user 1, each returned to its recipient.
C15_Witness ==
    /\ hubpc = "sendUnregister" /\ lastPush = "full"
    /\ clients[1] = NoClient
    /\ clients[2] # NoClient /\ Len(send[clients[2]]) = QueueCap
    /\ \A u \in {1, 2} : ENABLED (PushToUser(u, NextMsg) /\ UNCHANGED vars)
    /\ Len(messages) = MaxMsgs
    /\ \E i, j \in 1..Len(messages) :
          /\ i < j
          /\ messages[i].recipient = 2 /\ messages[i].sender = 1
          /\ messages[j].recipient = 1 /\ messages[j].sender = 2
          /\ messages[j].timestamp = messages[i].timestamp
          /\ Retrievable(messages, messages[i], 0)
          /\ Retrievable(messages, messages[j], messages[j].id - 1)

\* C19: every stored message is between two users with an accepted chat
\* request, in one direction or the other.
C19_MutualAgreement ==
    \A i \in 1..Len(messages) :
        \/ RequestStatus(requests, messages[i].sender, messages[i].recipient) = "accepted"
        \/ RequestStatus(requests, messages[i].recipient, messages[i].sender) = "accepted"

\* The register case of Hub.Run has run for c: c is in the map, or it was
\* there and has been closed by a later register or unregister case.
RegisterProcessed(c) == InMap(c) \/ closed[c]

\* C17: the pumps of a Client run only once the loop has received its
\* Register, and every Unregister a Client's pumps have sent, or that the
\* loop is processing, comes after the register case has run for it.
C17_RegisterBeforeUnregister ==
    \A c \in Conns :
        /\ Started(c) => \/ RegisterProcessed(c)
                         \/ hubpc = "register" /\ cur.client = c
        /\ (unregSent[c] > 0 \/ (hubpc = "unregister" /\ cur.client = c))
              => RegisterProcessed(c)

\* A Client whose pumps have sent Unregister and whose unregister case has
\* run.
C17_Witness ==
    \E c \in Conns : unregSent[c] > 0 /\ closed[c] /\ ~InMap(c) /\ hubpc = "select"

\* C20: h.clients changes only in a step of the register or the unregister
\* case of Hub.Run, and every operation on it (lookup, insert, delete) is
\* executed by Hub.Run: no step of a PushToUser caller, a pump or a handler
\* reads or writes it, so no two tasks access it concurrently.
C20_SingleWriterMap ==
    [][/\ clients' # clients
            => /\ hubpc \in {"register", "unregister"}
               /\ hubpc' \in {"select", "panic"}
       /\ mapAccess' # mapAccess
            => /\ hubpc \in {"register", "unregister", "push"}
               /\ hubpc' # hubpc
       /\ \A a \in mapAccess' : a.task = "Run"]_vars

\* The map has seen an insert, a replace and a delete by the loop, a lookup
\* by its push case, and meanwhile a write pump has emitted a frame, a read
\* pump has sent its Unregister and PushToUser has been called.
C20_Witness ==
    /\ superseded # {}
    /\ mapAccess = Accesses("Run", {"read", "insert", "delete"})
    /\ lastPush = "queued"
    /\ \E c \in Conns : Len(emitted[c]) > 0
    /\ \E c \in Conns : /\ c \notin superseded
                        /\ connpc[c] = "gone"
                        /\ unregSent[c] > 0 /\ closed[c] /\ ~InMap(c)

\* The request carries a well-signed, unexpired token of an existing user.
VerifiedRequest(req) ==
    /\ req.token.kind = "valid"
    /\ req.token.user \in UserIDs

\* C18: a Client is created, and so handed to Register, only by a GET /ws
\* request that passed credential verification, under the id of the
\* request's verified user; the id never changes afterwards, and every map
\* entry holds a Client of the id it is filed under.
C18_RegisterOnlyVerified ==
    [][/\ \A c \in Conns :
            /\ (connpc[c] = "none" /\ connpc'[c] # "none")
                  => /\ VerifiedRequest(wsReq')
                     /\ connUser'[c] = wsReq'.token.user
            /\ connpc[c] # "none" => connUser'[c] = connUser[c]
            /\ connpc'[c] = "none" => connUser'[c] = 0 /\ ~InMap(c)'
       /\ \A u \in UserIDs :
            clients'[u] # NoClient
               => /\ connpc'[clients'[u]] # "none"
                  /\ connUser'[clients'[u]] = u
       /\ hubpc' = "register" => connpc'[cur'.client] # "none"]_vars

\* A rejected request (an expired token of a real user) has been made after
\* a verified one, and only the verified one's Client is registered.
C18_Witness ==
    /\ wsReq.token.kind = "expired" /\ wsReq.token.user \in UserIDs /\ wsReq.upgraded
    /\ NumCreated = 1
    /\ \E u \in UserIDs : clients[u] = 1

\* C16: a registered Client whose read pump has met a terminal condition is
\* eventually no longer in the map.
C16_PeerGoneEventuallyUnregistered ==
    \A c \in Conns : (connpc[c] = "closing" /\ InMap(c)) ~> ~InMap(c)

\* C21: the push case for an online recipient whose payload json.Marshal
\* rejects leaves the map, every queue and every close unchanged, keeps the
\* recipient's Client registered and returns to the select.
C21_MarshalErrorDropped ==
    /\ ( /\ hubpc = "push"
         /\ clients[cur.user] # NoClient
         /\ Marshal(cur.msg).err )
       => ENABLED ( /\ HubPushLookup
                    /\ cur'.client = clients[cur.user]
                    /\ clients' = clients
                    /\ send'    = send
                    /\ closed'  = closed )
    /\ ( /\ hubpc = "deliver"
         /\ cur.client # NoClient
         /\ Marshal(cur.msg).err )
       => ENABLED ( /\ HubPush
                    /\ clients' = clients
                    /\ send'    = send
                    /\ closed'  = closed
                    /\ clients'[cur.user] = cur.client
                    /\ hubpc'   = "select" )

\* The push case has dropped a job on a json.Marshal error and the
\* recipient's Client is still registered with its queued frame.
C21_Witness ==
    /\ lastPush = "marshalErr"
    /\ hubpc = "select"
    /\ \E u \in UserIDs : /\ clients[u] # NoClient
                          /\ ~closed[clients[u]]
                          /\ Len(send[clients[u]]) > 0

\* C22: the register case always completes, and afterwards the entry of the
\* Client's identity is that Client, every other identity has the entry it
\* had, no queue has changed and only a Client of the same identity may have
\* been closed.
C22_RegisterSucceeds ==
    hubpc = "register"
    => ENABLED ( /\ HubRegister
                 /\ hubpc' = "select"
                 /\ clients'[connUser[cur.client]] = cur.client
                 /\ \A u \in UserIDs \ {connUser[cur.client]} : clients'[u] = clients[u]
                 /\ send' = send
                 /\ \A d \in Conns : connUser[d] # connUser[cur.client]
                                        => closed'[d] = closed[d] )

\* A Register was processed while a Client of another identity was online
\* with a frame in its queue, and that Client is still registered.
C22_Witness ==
    /\ hubpc = "select"
    /\ \E c, d \in Conns :
          /\ c > d
          /\ InMap(c) /\ InMap(d)
          /\ connUser[c] # connUser[d]
          /\ Len(send[d]) > 0

\* C25: every Client in the map has an open queue, and no close or send on a
\* closed channel has stopped the loop.
C25_MapEntriesOpen ==
    /\ \A u \in UserIDs : clients[u] # NoClient => ~closed[clients[u]]
    /\ hubpc # "panic"
    /\ lastPush # "panic"

\* A Push was enqueued for an identity whose earlier Client was superseded,
\* after another Client had been unregistered.
C25_Witness ==
    /\ lastPush = "queued"
    /\ superseded # {}
    /\ \E c \in Conns : c \notin superseded /\ closed[c] /\ unregSent[c] > 0

\* C26: every map entry is a Client of the identity it is filed under, and
\* the push case for identity X changes no queue but that of a Client whose
\* userID is X.
C26_FrameOnlyToOwner ==
    /\ \A u \in UserIDs : clients[u] # NoClient => connUser[clients[u]] = u
    /\ hubpc = "push"
         => ENABLED ( /\ HubPushLookup
                      /\ send' = send
                      /\ cur'.client # NoClient
                            => connUser[cur'.client] = cur.user )
    /\ hubpc = "deliver"
         => ENABLED ( /\ HubPush
                      /\ \A c \in Conns :
                            send'[c] # send[c] => connUser[c] = cur.user )

\* Two Clients of different identities are registered and each holds a
\* frame.
C26_Witness ==
    \E c, d \in Conns :
        /\ InMap(c) /\ InMap(d)
        /\ connUser[c] # connUser[d]
        /\ Len(accepted[c]) > 0 /\ Len(accepted[d]) > 0

\* C27: h.push holds no job.  A PushToUser call hands its job over exactly
\* when the loop waits in its select, and then the job is the event the loop
\* has in hand; in every other position of the loop the call changes
\* nothing, so the job is gone.
C27_NoBufferedJob ==
    \A u \in UserIDs :
        /\ (hubpc = "select" /\ pushJobs < MaxPush)
              => /\ ENABLED ( /\ PushToUser(u, NextMsg)
                              /\ hubpc' = "push"
                              /\ cur' = [kind |-> "push", client |-> NoClient,
                                         user |-> u, msg |-> NextMsg] )
                 /\ ~ENABLED (PushToUser(u, NextMsg) /\ UNCHANGED vars)
        /\ hubpc # "select"
              => /\ ENABLED (PushToUser(u, NextMsg) /\ UNCHANGED vars)
                 /\ ~ENABLED (PushToUser(u, NextMsg) /\ ~(UNCHANGED vars))

\* A call is dropped while the loop is in the register case of a Client.
C27_Witness ==
    /\ hubpc = "register"
    /\ pushJobs < MaxPush
    /\ \E u \in UserIDs : ENABLED (PushToUser(u, NextMsg) /\ UNCHANGED vars)

\* C23: AcceptChat by user u naming n turns the pending request from n to u,
\* and nothing else, into an accepted one; without such a request it
\* returns a not-found error, which POST /accept_chat answers with 404, and
\* the table is unchanged.  A pending request is never accepted by a call
\* of anyone but its requested user: POST /accept_chat by the requested
\* user accepts it and answers 200, by any other user it leaves the request
\* pending.
C23_AcceptOnlyPending ==
    \A u \in UserIDs, n \in Usernames \ {EmptyName} :
        LET res  == AcceptChat(requests, u, n)
            pend == [requester |-> n, requested |-> u, status |-> "pending"]
            acc  == [requester |-> n, requested |-> u, status |-> "accepted"]
        IN  /\ IF pend \in requests
                 THEN /\ res.err = <<>>
                      /\ acc \in res.requests /\ pend \notin res.requests
                      /\ res.requests \ {acc} = requests \ {pend}
                 ELSE /\ Contains(res.err, <<"not", "found">>)
                      /\ res.requests = requests
            /\ \A x \in requests :
                  (x.status = "pending" /\ x.requested # u)
                     => x \in res.requests
            /\ \A x \in requests :
                  x.status = "pending"
                     => IF x.requested = u
                          THEN ENABLED ( /\ handleAcceptChat(u, x.requester)
                                         /\ [x EXCEPT !.status = "accepted"] \in requests'
                                         /\ chatReq'.status = 200 )
                          ELSE ~ENABLED ( /\ handleAcceptChat(u, n)
                                          /\ x \notin requests' )
            /\ pend \notin requests
                  => /\ ENABLED ( /\ handleAcceptChat(u, n)
                                  /\ chatReq'.status = 404
                                  /\ requests' = requests )
                     /\ ~ENABLED ( /\ handleAcceptChat(u, n)
                                   /\ chatReq'.status = 200 )

\* The stored message m was exchanged between me and partner.
Between(m, me, partner) ==
    \/ m.sender = me /\ m.recipient = partner
    \/ m.sender = partner /\ m.recipient = me

\* C24: for an existing partner GetMessages returns, once each, the stored
\* messages between me and the partner with id above sinceID and no other
\* row, each with the sender_blob when me sent it and the recipient_blob
\* otherwise, in ascending order of their timestamps, whatever the order in
\* which the executor produces the rows; for an unknown partner it returns
\* an error and no row.
C24_GetMessagesExact ==
    \A me \in UserIDs, partner \in Usernames \ {EmptyName},
       sinceID \in 0..Len(messages), scan \in Scans(Len(messages)) :
        LET res  == GetMessages(messages, me, partner, sinceID, scan)
            want == {i \in 1..Len(messages) :
                        Between(messages[i], me, partner) /\ messages[i].id > sinceID}
        IN  IF partner \notin UserIDs
              THEN res.err = <<"partner", "user", "not", "found">> /\ res.rows = <<>>
              ELSE /\ res.err = <<>>
                   /\ Len(res.rows) = Cardinality(want)
                   /\ \A i \in want :
                         \E k \in 1..Len(res.rows) :
                            /\ res.rows[k].id        = messages[i].id
                            /\ res.rows[k].sender    = messages[i].sender
                            /\ res.rows[k].recipient = messages[i].recipient
                            /\ res.rows[k].timestamp = messages[i].timestamp
                            /\ res.rows[k].blob =
                                  IF messages[i].sender = me
                                    THEN messages[i].senderBlob
                                    ELSE messages[i].recipientBlob
                   /\ \A k \in 1..Len(res.rows) :
                         \E i \in want : res.rows[k].id = messages[i].id
                   /\ \A k \in 1..(Len(res.rows) - 1) :
                         res.rows[k].timestamp <= res.rows[k + 1].timestamp

\* Two messages between me and the partner, one in each direction, the
\* later one with the earlier timestamp: a query returns both, the later one
\* first; with sinceID 1 it returns the later one alone, and the query for
\* the messages me sent to itself returns nothing.
C24_Witness ==
    \E me \in UserIDs : \E partner \in UserIDs \ {me} :
        \E scan \in Scans(Len(messages)) :
            LET all   == GetMessages(messages, me, partner, 0, scan).rows
                later == GetMessages(messages, me, partner, 1, scan).rows
                self  == GetMessages(messages, me, me, 0, scan).rows
            IN  /\ Len(messages) = MaxMsgs
                /\ Len(all) = 2
                /\ all[1].id = 2 /\ all[1].sender = partner
                /\ all[2].id = 1 /\ all[2].sender = me
                /\ Len(later) = 1 /\ later[1].id = 2
                /\ self = <<>>

====
